---- MODULE Spec2Model ----
(***************************************************************************)
(* Model of the mojo.az scraper: the phone validator (phone_validator.py)  *)
(* and the checkpointed, semaphore-limited batch crawl (mojo_scraper.py).  *)
(*                                                                         *)
(* One step of the model is one stretch of code between two suspension     *)
(* points of the event loop: a fetch_user task runs from the semaphore to  *)
(* session.get, from the response to response.text(), and from the body to *)
(* its return; scrape_all runs from one await of scrape_batch to the next. *)
(* save_checkpoint is two steps, the open that truncates the file and the  *)
(* dump that fills it, so that a kill of the process can fall in between.  *)
(* An interruption is the KeyboardInterrupt that scrape_all catches; the   *)
(* tasks of the batch it interrupts do not run again.                      *)
(***************************************************************************)
EXTENDS Integers, Sequences, FiniteSets, TLC

\* ------------------------------------------------------------------ bounds
\* Largest end_id of the crawl configurations explored by Spec.
MaxEndId == 3
\* Number of processes (runs of main) over the same checkpoint file.
MaxRuns == 2
\* Longest raw phone string handed to the validator by the test harness.
MaxLen == 10
\* Largest N of the pre-existing checkpoint of the resume scenario.
MaxResumeN == 2

VARIABLES
    \* MojoScraper.__init__ arguments and scrape_all arguments
    start_id, end_id, max_concurrent, batch_size, save_every,
    \* MojoScraper fields
    semaphore, results, stats,
    \* the checkpoint file on disk, and the wall clock
    file, now,
    \* scrape_all: position, locals
    pc, save_site, actual_start, batch_start, last_save_count,
    \* the fetch_user tasks of the batch being gathered
    task,
    \* how scrape_all ended: "none", "ok", "interrupted", "raised"
    outcome,
    \* history: run number, saves of this run, per id the number of tasks
    \* created and the way its task settled in this run, what the last
    \* interruption left behind, ids that ever yielded a record, and what
    \* load_checkpoint found at the start of this run
    run, save_log, dispatched, settled, intr, produced, loaded,
    \* history: the ids of the current batch in the order their fetches ended
    completed,
    \* phone_validator.py test loop: the input and the validator's answer
    phone_input, result

vars == <<start_id, end_id, max_concurrent, batch_size, save_every,
          semaphore, results, stats, file, now,
          pc, save_site, actual_start, batch_start, last_save_count,
          task, outcome, run, save_log, dispatched, settled, intr, produced, loaded,
          completed, phone_input, result>>

config == <<start_id, end_id, max_concurrent, batch_size, save_every>>
harness == <<phone_input, result>>

\* ---------------------------------------------------------- phone_validator
\* Python's None for an Optional[str]; a returned phone always has 9 characters.
None == <<"None">>

Digits == {"0", "1", "2", "3", "4", "5", "6", "7", "8", "9"}

VALID_PREFIXES == {<<"1", "0">>, <<"5", "0">>, <<"5", "1">>, <<"5", "5">>,
                   <<"6", "0">>, <<"7", "0">>, <<"7", "7">>, <<"9", "9">>}

INVALID_THIRD_DIGITS == {"0", "1"}

IsDigit(c) == c \in Digits

\* re.sub(r'\D', '', phone_raw)
clean_phone(phone_raw) == SelectSeq(phone_raw, IsDigit)

\* Python slice s[-n:]
LastN(s, n) == IF Len(s) <= n THEN s ELSE SubSeq(s, Len(s) - n + 1, Len(s))

\* A plausible slip: the first nine digits are kept instead of the last nine.
validate_phone_first9(phone_number) ==
    LET cleaned == clean_phone(phone_number) IN
    IF cleaned = <<>> THEN None
    ELSE LET phone_9digit == SubSeq(cleaned, 1, IF Len(cleaned) < 9 THEN Len(cleaned) ELSE 9) IN
         IF Len(phone_9digit) # 9 THEN None
         ELSE IF SubSeq(phone_9digit, 1, 2) \notin VALID_PREFIXES THEN None
         ELSE IF phone_9digit[3] \in INVALID_THIRD_DIGITS THEN None
         ELSE phone_9digit

\* A plausible slip: rule 5, the test of the third digit, is left out.
validate_phone_no_rule5(phone_number) ==
    LET cleaned == clean_phone(phone_number) IN
    IF cleaned = <<>> THEN None
    ELSE LET phone_9digit == LastN(cleaned, 9) IN
         IF Len(phone_9digit) # 9 THEN None
         ELSE IF SubSeq(phone_9digit, 1, 2) \notin VALID_PREFIXES THEN None
         ELSE phone_9digit

validate_phone(phone_number) ==
    LET cleaned == clean_phone(phone_number) IN
    IF cleaned = <<>> THEN None
    ELSE LET phone_9digit == LastN(cleaned, 9) IN
         IF Len(phone_9digit) # 9 THEN None
         ELSE IF SubSeq(phone_9digit, 1, 2) \notin VALID_PREFIXES THEN None
         ELSE IF phone_9digit[3] \in INVALID_THIRD_DIGITS THEN None
         ELSE phone_9digit

\* ------------------------------------------------------------ pages
\* A fetched page as parse_user_data sees it: the text of the h2.pb-0 tag
\* (<<>> when the tag is missing, <<"">> when it is empty), whether the
\* enclosing div.p-2 exists, and the first phone-shaped substring of its text
\* (None when the pattern does not match).
ValidPage == [name |-> <<"Ali">>, user_div |-> TRUE,
              phone_raw |-> <<"(", "0", "5", "0", ")", " ", "5", "5", "5", "-", "1", "2", "-", "3", "4">>]
InvalidPhonePage == [name |-> <<"Ali">>, user_div |-> TRUE,
                     phone_raw |-> <<"(", "0", "4", "0", ")", " ", "5", "5", "5", "-", "1", "2", "-", "3", "4">>]
NoPhonePage == [name |-> <<"Ali">>, user_div |-> TRUE, phone_raw |-> None]
NoNamePage == [name |-> <<>>, user_div |-> TRUE, phone_raw |-> None]

Pages == {ValidPage, InvalidPhonePage, NoPhonePage, NoNamePage}

\* ------------------------------------------------------------ MojoScraper
InitStats(start) ==
    [total_processed |-> 0, successful |-> 0, failed |-> 0, invalid_phone |-> 0,
     no_phone |-> 0, valid_users |-> 0, last_processed_id |-> start - 1]

\* parse_user_data: the returned dict (<<>> for None) and self.stats afterwards.
parse_user_data(html, user_id, self_stats) ==
    IF html.name = <<>> \/ html.name = <<"">> \/ ~html.user_div
    THEN [user_data |-> <<>>, stats |-> self_stats]
    ELSE IF html.phone_raw = None
    THEN [user_data |-> <<>>,
          stats |-> [self_stats EXCEPT !.no_phone = @ + 1]]
    ELSE LET validated_phone == validate_phone(html.phone_raw) IN
         IF validated_phone = None
         THEN [user_data |-> <<>>,
               stats |-> [self_stats EXCEPT !.invalid_phone = @ + 1]]
         ELSE [user_data |-> <<[user_id |-> user_id, name |-> html.name[1],
                                phone |-> validated_phone]>>,
               stats |-> self_stats]

\* ------------------------------------------------------------ checkpoint file
\* The file is a JSON object written member by member: "results", "stats",
\* "timestamp", then the closing brace.  A member that is not (yet) in the
\* file is <<>>, a member that is there is a one-element sequence.
NoFile == [exists |-> FALSE, results |-> <<>>, stats |-> <<>>, timestamp |-> <<>>,
           closed |-> FALSE]

\* json.dump(checkpoint_data, f) run to the end, file closed
json_dump(checkpoint_data) ==
    [exists |-> TRUE, results |-> <<checkpoint_data.results>>,
     stats |-> <<checkpoint_data.stats>>,
     timestamp |-> <<checkpoint_data.timestamp>>, closed |-> TRUE]

\* what is on disk when only the first n members of doc were flushed
Truncated(doc, n) ==
    [exists |-> TRUE,
     results |-> IF n >= 1 THEN doc.results ELSE <<>>,
     stats |-> IF n >= 2 THEN doc.stats ELSE <<>>,
     timestamp |-> IF n >= 3 THEN doc.timestamp ELSE <<>>,
     closed |-> FALSE]

\* json.load succeeds only on a complete document
json_load_ok(f) == f.closed

\* the dict save_checkpoint builds
checkpoint_data(self_results, self_stats, timestamp) ==
    [results |-> self_results, stats |-> self_stats, timestamp |-> timestamp]

\* A plausible slip: the stats of the file are not adopted.
load_checkpoint_keeps_stats(f, self_results, self_stats) ==
    IF ~f.exists \/ ~json_load_ok(f)
    THEN [ret |-> FALSE, results |-> self_results, stats |-> self_stats]
    ELSE [ret |-> TRUE,
          results |-> IF f.results = <<>> THEN <<>> ELSE f.results[1],
          stats |-> self_stats]

\* A plausible slip: the members that could be read from a broken file are
\* adopted before the parse error is noticed.
load_checkpoint_adopts_partial(f, self_results, self_stats) ==
    IF ~f.exists THEN [ret |-> FALSE, results |-> self_results, stats |-> self_stats]
    ELSE [ret |-> json_load_ok(f),
          results |-> IF f.results = <<>> THEN <<>> ELSE f.results[1],
          stats |-> IF f.stats = <<>> THEN self_stats ELSE f.stats[1]]

\* load_checkpoint: its return value and self.results, self.stats afterwards
load_checkpoint(f, self_results, self_stats) ==
    IF ~f.exists THEN [ret |-> FALSE, results |-> self_results, stats |-> self_stats]
    ELSE IF ~json_load_ok(f)
    THEN [ret |-> FALSE, results |-> self_results, stats |-> self_stats]
    ELSE [ret |-> TRUE,
          results |-> IF f.results = <<>> THEN <<>> ELSE f.results[1],
          stats |-> IF f.stats = <<>> THEN self_stats ELSE f.stats[1]]

\* ------------------------------------------------------------ scrape_all
Ids == 1..end_id

NoTasks == [i \in {} |-> [st |-> "pending", ret |-> <<>>]]

\* A plausible slip: the end of the batch is not cut at end_id.
BatchEnd_uncut == batch_start + batch_size - 1

\* batch_end = min(batch_start + batch_size - 1, self.end_id)
BatchEnd == IF batch_start + batch_size - 1 < end_id
            THEN batch_start + batch_size - 1 ELSE end_id

InFlight == {i \in DOMAIN task : task[i].st \in {"get", "text"}}

\* batches whose gather has returned in this run, as seen when a save is written
BatchesSettled ==
    (batch_start - actual_start) \div batch_size + (IF save_site = "auto" THEN 1 ELSE 0)

NoIntr == [kind |-> "none", next |-> 0, k |-> 0, unsettled |-> {}, records |-> {}]

\* the state __init__ leaves, for a configuration cfg and a file f on disk
InitScraper(cfg, f) ==
    /\ start_id = cfg.start_id
    /\ end_id = cfg.end_id
    /\ max_concurrent = cfg.max_concurrent
    /\ batch_size = cfg.batch_size
    /\ save_every = cfg.save_every
    /\ semaphore = cfg.max_concurrent
    /\ results = <<>>
    /\ stats = InitStats(cfg.start_id)
    /\ file = f
    /\ now = 1
    /\ pc = "idle"
    /\ save_site = "none"
    /\ actual_start = cfg.start_id
    /\ batch_start = cfg.start_id
    /\ last_save_count = 0
    /\ task = NoTasks
    /\ outcome = "none"
    /\ run = 1
    /\ save_log = <<>>
    /\ dispatched = [i \in 1..cfg.end_id |-> 0]
    /\ settled = [i \in 1..cfg.end_id |-> "pending"]
    /\ intr = NoIntr
    /\ produced = {}
    /\ loaded = [ret |-> FALSE, doc |-> NoFile]
    /\ completed = <<>>

HarnessIdle == phone_input = <<>> /\ result = <<"not run">>

\* A plausible slip: the run resumes at the cursor instead of after it.
ActualStart_at_cursor(self_stats, self_start_id) ==
    LET resume_id == self_stats.last_processed_id IN
    IF resume_id > self_start_id THEN resume_id ELSE self_start_id

\* the starting point scrape_all computes from the (loaded) stats
ActualStart(self_stats, self_start_id) ==
    LET resume_id == self_stats.last_processed_id + 1 IN
    IF resume_id > self_start_id THEN resume_id ELSE self_start_id

\* scrape_all up to the for loop: load_checkpoint, resume point, last_save_count
Start ==
    /\ pc = "idle"
    /\ LET cp == load_checkpoint(file, results, stats)
           start == ActualStart(cp.stats, start_id)
       IN /\ results' = cp.results
          /\ stats' = cp.stats
          /\ actual_start' = start
          /\ batch_start' = start
          /\ last_save_count' = cp.stats.total_processed
          /\ loaded' = [ret |-> cp.ret, doc |-> file]
    /\ pc' = "loop"
    /\ UNCHANGED <<config, semaphore, file, now, save_site, task, outcome, run,
                   save_log, dispatched, settled, intr, produced, harness, completed>>

\* one iteration of the for loop begins: scrape_batch creates a fetch_user
\* task per id of the batch and awaits gather
Dispatch ==
    /\ pc = "loop"
    /\ batch_start <= end_id
    /\ task' = [i \in batch_start..BatchEnd |-> [st |-> "pending", ret |-> <<>>]]
    /\ dispatched' = [i \in Ids |->
                        IF i \in batch_start..BatchEnd THEN dispatched[i] + 1
                        ELSE dispatched[i]]
    /\ pc' = "gather"
    /\ UNCHANGED <<config, semaphore, results, stats, file, now, save_site,
                   actual_start, batch_start, last_save_count, outcome, run,
                   save_log, settled, intr, produced, loaded, harness>>
    /\ completed' = <<>>

\* A plausible slip: the run returns when the range is exhausted, without the
\* final save.
LoopExit_returns ==
    /\ pc = "loop"
    /\ batch_start > end_id
    /\ pc' = "done"
    /\ save_site' = "final"
    /\ outcome' = "ok"
    /\ UNCHANGED <<config, semaphore, results, stats, file, now, actual_start,
                   batch_start, last_save_count, task, run, save_log,
                   dispatched, settled, intr, produced, loaded, harness, completed>>

\* the range is exhausted: the final save
LoopExit ==
    /\ pc = "loop"
    /\ batch_start > end_id
    /\ pc' = "save"
    /\ save_site' = "final"
    /\ UNCHANGED <<config, semaphore, results, stats, file, now, actual_start,
                   batch_start, last_save_count, task, outcome, run, save_log,
                   dispatched, settled, intr, produced, loaded, harness, completed>>

\* ------------------------------------------------------------ fetch_user
TaskFrame == <<config, results, file, now, pc, save_site, actual_start,
               batch_start, last_save_count, outcome, run, save_log, dispatched,
               intr, loaded, harness>>

\* A plausible slip: the limiter admits a task whatever the permit count.
CanAcquire_unlimited(permits) == permits > 0 \/ permits <= 0

\* async with self.semaphore: the task enters when a permit is free
CanAcquire(permits) == permits > 0

\* gather starts the tasks in the order of batch_ids and the semaphore wakes
\* its waiters in the order they arrived, so the ids enter in ascending order
Acquire(user_id) ==
    /\ pc = "gather"
    /\ user_id \in DOMAIN task
    /\ task[user_id].st = "pending"
    /\ \A other \in DOMAIN task : other < user_id => task[other].st # "pending"
    /\ CanAcquire(semaphore)
    /\ semaphore' = semaphore - 1
    /\ task' = [task EXCEPT ![user_id].st = "get"]
    /\ UNCHANGED <<TaskFrame, stats, settled, produced, completed>>

\* A plausible slip: a branch that returns None moves the cursor but does not
\* count the failure.
Failed_uncounted(self_stats, user_id) ==
    [self_stats EXCEPT !.last_processed_id = user_id]

\* the stats after a branch of fetch_user that returns None
Failed(self_stats, user_id) ==
    [self_stats EXCEPT !.failed = @ + 1, !.last_processed_id = user_id]

\* session.get answers with a status
Respond(user_id, status) ==
    /\ pc = "gather"
    /\ user_id \in DOMAIN task
    /\ task[user_id].st = "get"
    /\ LET counted == [stats EXCEPT !.total_processed = @ + 1] IN
       IF status = 200
       THEN /\ stats' = counted
            /\ task' = [task EXCEPT ![user_id].st = "text"]
            /\ UNCHANGED <<semaphore, settled, completed>>
       ELSE /\ stats' = Failed(counted, user_id)
            /\ task' = [task EXCEPT ![user_id].st = "done"]
            /\ semaphore' = semaphore + 1
            /\ settled' = [settled EXCEPT ![user_id] = "absent"]
            /\ completed' = Append(completed, user_id)
    /\ UNCHANGED <<TaskFrame, produced>>

\* response.text() delivers the body, parse_user_data runs
ReadBody(user_id, html) ==
    /\ pc = "gather"
    /\ user_id \in DOMAIN task
    /\ task[user_id].st = "text"
    /\ LET parsed == parse_user_data(html, user_id, stats) IN
       IF parsed.user_data # <<>>
       THEN /\ stats' = [parsed.stats EXCEPT !.successful = @ + 1,
                                             !.valid_users = @ + 1,
                                             !.last_processed_id = user_id]
            /\ task' = [task EXCEPT ![user_id] = [st |-> "done", ret |-> parsed.user_data]]
            /\ settled' = [settled EXCEPT ![user_id] = "record"]
            /\ produced' = produced \cup {user_id}
       ELSE /\ stats' = Failed(parsed.stats, user_id)
            /\ task' = [task EXCEPT ![user_id].st = "done"]
            /\ settled' = [settled EXCEPT ![user_id] = "absent"]
            /\ UNCHANGED produced
    /\ semaphore' = semaphore + 1
    /\ completed' = Append(completed, user_id)
    /\ UNCHANGED TaskFrame

\* A plausible slip: the exception leaves fetch_user and gather hands it to
\* scrape_all, which takes its error exit.
FetchRaises_escapes(user_id) ==
    /\ pc = "gather"
    /\ user_id \in DOMAIN task
    /\ task[user_id].st \in {"get", "text"}
    /\ task' = NoTasks
    /\ pc' = "save"
    /\ save_site' = "error"
    /\ UNCHANGED <<config, semaphore, results, stats, file, now, actual_start,
                   batch_start, last_save_count, outcome, run, save_log,
                   dispatched, settled, intr, produced, loaded, harness, completed>>

\* A plausible slip: the permit is acquired and released by hand, and the
\* path of the exception returns without the release.
FetchRaises_keeps_permit(user_id) ==
    /\ pc = "gather"
    /\ user_id \in DOMAIN task
    /\ task[user_id].st \in {"get", "text"}
    /\ stats' = Failed(stats, user_id)
    /\ task' = [task EXCEPT ![user_id].st = "done"]
    /\ settled' = [settled EXCEPT ![user_id] = "absent"]
    /\ completed' = Append(completed, user_id)
    /\ UNCHANGED <<TaskFrame, semaphore, produced>>

\* asyncio.TimeoutError or another exception out of session.get or
\* response.text()
FetchRaises(user_id) ==
    /\ pc = "gather"
    /\ user_id \in DOMAIN task
    /\ task[user_id].st \in {"get", "text"}
    /\ stats' = Failed(stats, user_id)
    /\ task' = [task EXCEPT ![user_id].st = "done"]
    /\ semaphore' = semaphore + 1
    /\ settled' = [settled EXCEPT ![user_id] = "absent"]
    /\ completed' = Append(completed, user_id)
    /\ UNCHANGED <<TaskFrame, produced>>

\* ------------------------------------------------------------ scrape_batch
RECURSIVE Gathered(_, _, _)
\* A plausible slip: the list is built from the back, the highest id first.
Gathered_reversed(t, lo, hi) ==
    IF lo > hi THEN <<>> ELSE Gathered(t, lo + 1, hi) \o t[lo].ret

\* gather's result list in task order, None filtered out
Gathered(t, lo, hi) ==
    IF lo > hi THEN <<>> ELSE t[lo].ret \o Gathered(t, lo + 1, hi)

\* A plausible slip: the threshold must be exceeded, not reached.
SaveDue_strict(total_processed, last_save, every) == total_processed - last_save > every

\* the auto-save test of scrape_all
SaveDue(total_processed, last_save, every) == total_processed - last_save >= every

\* A plausible slip: scrape_batch returns as soon as one task is done, as
\* asyncio.wait(..., return_when=FIRST_COMPLETED) would.
BatchComplete_first_done ==
    /\ pc = "gather"
    /\ \E i \in DOMAIN task : task[i].st = "done"
    /\ results' = results \o Gathered(task, batch_start, BatchEnd)
    /\ task' = NoTasks
    /\ IF SaveDue(stats.total_processed, last_save_count, save_every)
       THEN /\ pc' = "save"
            /\ save_site' = "auto"
            /\ UNCHANGED batch_start
       ELSE /\ pc' = "loop"
            /\ batch_start' = batch_start + batch_size
            /\ UNCHANGED save_site
    /\ UNCHANGED <<config, semaphore, stats, file, now, actual_start,
                   last_save_count, outcome, run, save_log, dispatched, settled,
                   intr, produced, loaded, harness, completed>>

\* A plausible slip: self.results = batch_results instead of extend.
BatchComplete_assigns ==
    /\ pc = "gather"
    /\ \A i \in DOMAIN task : task[i].st = "done"
    /\ results' = Gathered(task, batch_start, BatchEnd)
    /\ task' = NoTasks
    /\ IF SaveDue(stats.total_processed, last_save_count, save_every)
       THEN /\ pc' = "save"
            /\ save_site' = "auto"
            /\ UNCHANGED batch_start
       ELSE /\ pc' = "loop"
            /\ batch_start' = batch_start + batch_size
            /\ UNCHANGED save_site
    /\ UNCHANGED <<config, semaphore, stats, file, now, actual_start,
                   last_save_count, outcome, run, save_log, dispatched, settled,
                   intr, produced, loaded, harness, completed>>

\* gather returns: results.extend, then the auto-save test
BatchComplete ==
    /\ pc = "gather"
    /\ \A i \in DOMAIN task : task[i].st = "done"
    /\ results' = results \o Gathered(task, batch_start, BatchEnd)
    /\ task' = NoTasks
    /\ IF SaveDue(stats.total_processed, last_save_count, save_every)
       THEN /\ pc' = "save"
            /\ save_site' = "auto"
            /\ UNCHANGED batch_start
       ELSE /\ pc' = "loop"
            /\ batch_start' = batch_start + batch_size
            /\ UNCHANGED save_site
    /\ UNCHANGED <<config, semaphore, stats, file, now, actual_start,
                   last_save_count, outcome, run, save_log, dispatched, settled,
                   intr, produced, loaded, harness, completed>>

\* ------------------------------------------------------------ save_checkpoint
\* open(self.checkpoint_file, 'w') truncates the file
SaveOpen ==
    /\ pc = "save"
    /\ file' = Truncated(NoFile, 0)
    /\ pc' = "write"
    /\ UNCHANGED <<config, semaphore, results, stats, now, save_site,
                   actual_start, batch_start, last_save_count, task, outcome,
                   run, save_log, dispatched, settled, intr, produced, loaded,
                   harness, completed>>

\* A plausible slip: the KeyboardInterrupt handler ends with "raise" too.
ExitOutcome_reraises(site) ==
    CASE site = "final" -> "ok"
      [] OTHER -> "raised"

\* how scrape_all ends after the save of an exit: it returns after the final
\* save, returns after the save of the KeyboardInterrupt handler ("Don't
\* re-raise"), and re-raises after the save of the Exception handler
ExitOutcome(site) ==
    CASE site = "final" -> "ok"
      [] site = "interrupt" -> "interrupted"
      [] OTHER -> "raised"

\* json.dump ran to the end and the file was closed; scrape_all goes on
SaveWrite ==
    /\ pc = "write"
    /\ file' = json_dump(checkpoint_data(results, stats, now))
    /\ save_log' = Append(save_log, [site |-> save_site, batches |-> BatchesSettled])
    /\ IF save_site = "auto"
       THEN /\ last_save_count' = stats.total_processed
            /\ batch_start' = batch_start + batch_size
            /\ pc' = "loop"
            /\ UNCHANGED outcome
       ELSE /\ pc' = "done"
            /\ outcome' = ExitOutcome(save_site)
            /\ UNCHANGED <<last_save_count, batch_start>>
    /\ UNCHANGED <<config, semaphore, results, stats, now, save_site,
                   actual_start, task, run, dispatched, settled, intr, produced,
                   loaded, harness, completed>>

\* A plausible slip: save_checkpoint catches the error of its write, logs it
\* and returns, so that scrape_all goes on as after a save.
SaveFails_swallowed ==
    /\ pc \in {"save", "write"}
    /\ \E n \in 0..2 :
          file' = IF pc = "write"
                  THEN Truncated(json_dump(checkpoint_data(results, stats, now)), n)
                  ELSE file
    /\ save_log' = Append(save_log, [site |-> "failed", batches |-> BatchesSettled])
    /\ IF save_site = "auto"
       THEN /\ last_save_count' = stats.total_processed
            /\ batch_start' = batch_start + batch_size
            /\ pc' = "loop"
            /\ UNCHANGED outcome
       ELSE /\ pc' = "done"
            /\ outcome' = CASE save_site = "final" -> "ok"
                            [] save_site = "interrupt" -> "interrupted"
                            [] OTHER -> "raised"
            /\ UNCHANGED <<last_save_count, batch_start>>
    /\ UNCHANGED <<config, semaphore, results, stats, now, save_site,
                   actual_start, task, run, dispatched, settled, intr, produced,
                   loaded, harness, completed>>

\* open or json.dump raises (OSError, or TypeError for a value json cannot
\* write): open leaves the file as it was, json.dump leaves what it had
\* flushed.  From the auto-save and the final save the exception reaches
\* "except Exception", which saves again and re-raises; from the save of a
\* handler it leaves scrape_all.
SaveFails ==
    /\ pc \in {"save", "write"}
    /\ \E n \in 0..2 :
          file' = IF pc = "write"
                  THEN Truncated(json_dump(checkpoint_data(results, stats, now)), n)
                  ELSE file
    /\ save_log' = Append(save_log, [site |-> "failed", batches |-> BatchesSettled])
    /\ IF save_site \in {"auto", "final"}
       THEN /\ pc' = "save"
            /\ save_site' = "error"
            /\ UNCHANGED outcome
       ELSE /\ pc' = "done"
            /\ outcome' = "raised"
            /\ UNCHANGED save_site
    /\ UNCHANGED <<config, semaphore, results, stats, now, actual_start,
                   batch_start, last_save_count, task, run, dispatched, settled,
                   intr, produced, loaded, harness, completed>>

\* ------------------------------------------------------------ exits
\* A plausible slip: the KeyboardInterrupt handler returns without saving.
Interrupt_without_save ==
    /\ pc \in {"loop", "gather"}
    /\ intr' = [kind |-> IF pc = "loop" THEN "between" ELSE "within",
                next |-> batch_start,
                k |-> (batch_start - actual_start) \div batch_size,
                unsettled |-> {i \in start_id..end_id :
                                 settled[i] = "pending" /\ i >= actual_start},
                records |-> {results[j].user_id : j \in 1..Len(results)}]
    /\ task' = NoTasks
    /\ pc' = "done"
    /\ outcome' = "interrupted"
    /\ UNCHANGED <<config, semaphore, results, stats, file, now, save_site,
                   actual_start, batch_start, last_save_count, run, save_log,
                   dispatched, settled, produced, loaded, harness, completed>>

\* except KeyboardInterrupt: raised in scrape_all between two batches or while
\* it awaits scrape_batch; the tasks of the batch are left behind
Interrupt ==
    /\ pc \in {"loop", "gather"}
    /\ intr' = [kind |-> IF pc = "loop" THEN "between" ELSE "within",
                next |-> batch_start,
                k |-> (batch_start - actual_start) \div batch_size,
                unsettled |-> {i \in start_id..end_id :
                                 settled[i] = "pending" /\ i >= actual_start},
                records |-> {results[j].user_id : j \in 1..Len(results)}]
    /\ task' = NoTasks
    /\ pc' = "save"
    /\ save_site' = "interrupt"
    /\ UNCHANGED <<config, semaphore, results, stats, file, now, actual_start,
                   batch_start, last_save_count, outcome, run, save_log,
                   dispatched, settled, produced, loaded, harness, completed>>

\* A plausible slip: the exception leaves scrape_all without the save.
UnexpectedError_unsaved ==
    /\ pc = "loop"
    /\ pc' = "done"
    /\ save_site' = "error"
    /\ outcome' = "raised"
    /\ UNCHANGED <<config, semaphore, results, stats, file, now, actual_start,
                   batch_start, last_save_count, task, run, save_log,
                   dispatched, settled, intr, produced, loaded, harness, completed>>

\* except Exception: an exception raised by a statement of the loop body
UnexpectedError ==
    /\ pc = "loop"
    /\ pc' = "save"
    /\ save_site' = "error"
    /\ UNCHANGED <<config, semaphore, results, stats, file, now, actual_start,
                   batch_start, last_save_count, task, outcome, run, save_log,
                   dispatched, settled, intr, produced, loaded, harness, completed>>

\* the process has ended; main is run again with the same arguments
Restart ==
    /\ pc \in {"done", "crashed"}
    /\ run < MaxRuns
    /\ run' = run + 1
    /\ now' = now + 1
    /\ semaphore' = max_concurrent
    /\ results' = <<>>
    /\ stats' = InitStats(start_id)
    /\ pc' = "idle"
    /\ save_site' = "none"
    /\ actual_start' = start_id
    /\ batch_start' = start_id
    /\ last_save_count' = 0
    /\ task' = NoTasks
    /\ outcome' = "none"
    /\ save_log' = <<>>
    /\ dispatched' = [i \in Ids |-> 0]
    /\ settled' = [i \in Ids |-> "pending"]
    /\ loaded' = [ret |-> FALSE, doc |-> NoFile]
    /\ intr' = IF outcome = "interrupted" THEN intr ELSE NoIntr
    /\ completed' = <<>>
    /\ UNCHANGED <<config, file, produced, harness>>

\* the process is killed: its memory is gone, and a kill inside json.dump
\* leaves on disk what had been flushed
Crash ==
    /\ pc \in {"loop", "gather", "save", "write"}
    /\ IF pc = "write"
       THEN \E n \in 0..3 :
               file' = Truncated(json_dump(checkpoint_data(results, stats, now)), n)
       ELSE UNCHANGED file
    /\ pc' = "crashed"
    /\ semaphore' = max_concurrent
    /\ results' = <<>>
    /\ stats' = InitStats(start_id)
    /\ save_site' = "none"
    /\ actual_start' = start_id
    /\ batch_start' = start_id
    /\ last_save_count' = 0
    /\ task' = NoTasks
    /\ UNCHANGED <<config, now, outcome, run, save_log, dispatched, settled,
                   intr, produced, loaded, harness, completed>>

\* ------------------------------------------------------------ specifications
Configs ==
    {[start_id |-> 1, end_id |-> e, max_concurrent |-> m, batch_size |-> 2,
      save_every |-> 2] : e \in {MaxEndId}, m \in {1, 2}}

Init == /\ \E cfg \in Configs : InitScraper(cfg, NoFile)
        /\ HarnessIdle

\* the limiter and every way a request can end, for every task
Limiter == \E user_id \in Ids : Acquire(user_id)

Raises == \E user_id \in Ids : FetchRaises(user_id)

\* the answers of the site: a status, and for a 200 a page
Answer == \E user_id \in Ids : \E status \in {200, 404} : Respond(user_id, status)

Body == \E user_id \in Ids : \E html \in {ValidPage, InvalidPhonePage} :
            ReadBody(user_id, html)

NextRun == \/ Start \/ Dispatch \/ LoopExit \/ BatchComplete \/ SaveOpen \/ SaveWrite
           \/ Limiter \/ Answer \/ Body \/ Raises

Next == NextRun \/ Interrupt \/ UnexpectedError \/ Restart

Spec == Init /\ [][Next]_vars

\* one run, never interrupted, on an event loop that keeps running what is
\* ready: a released permit wakes the first waiter, and every request ends,
\* by an answer or by the 10 s ClientTimeout
SpecRunFair == Init /\ [][NextRun]_vars /\ WF_vars(NextRun)

\* one run on the same event loop, with the two exits by exception
NextExits == NextRun \/ Interrupt \/ UnexpectedError

SpecExitsFair == Init /\ [][NextExits]_vars /\ WF_vars(NextRun)

\* a run killed and restarted, on a crawl of two batches of one id
CrashConfigs ==
    {[start_id |-> 1, end_id |-> 2, max_concurrent |-> 1, batch_size |-> 1,
      save_every |-> 1]}

InitCrash == /\ \E cfg \in CrashConfigs : InitScraper(cfg, NoFile)
             /\ HarnessIdle

NextCrash == Next \/ Crash

SpecCrash == InitCrash /\ [][NextCrash]_vars

\* the same crawl on a disk whose writes can fail
NextWriteFail == Next \/ SaveFails

SpecWriteFail == InitCrash /\ [][NextWriteFail]_vars

\* one run that resumes from a checkpoint left by a crawl of the ids 1..n, all
\* of them valid users, the last one settled last
ResumeCheckpoint(n) ==
    json_dump(checkpoint_data(
        [i \in 1..n |-> [user_id |-> i, name |-> "Ali",
                         phone |-> validate_phone(ValidPage.phone_raw)]],
        [total_processed |-> n, successful |-> n, failed |-> 0, invalid_phone |-> 0,
         no_phone |-> 0, valid_users |-> n, last_processed_id |-> n],
        0))

InitResume ==
    /\ \E n \in 1..MaxResumeN : \E s \in {1, n + 1} : \E e \in {n, n + 3} :
          InitScraper([start_id |-> s, end_id |-> e, max_concurrent |-> 2,
                       batch_size |-> 2, save_every |-> 2], ResumeCheckpoint(n))
    /\ HarnessIdle

AnyBody == \E user_id \in Ids : \E html \in Pages : ReadBody(user_id, html)

NextResume == \/ Start \/ Dispatch \/ LoopExit \/ BatchComplete \/ SaveOpen \/ SaveWrite
              \/ Limiter \/ Answer \/ AnyBody \/ Raises

SpecResume == InitResume /\ [][NextResume]_vars

\* the same run on an event loop that keeps running what is ready: every
\* request ends, by an answer or by the 10 s ClientTimeout
SpecResumeFair == SpecResume /\ WF_vars(NextResume)

\* the end-to-end scenario: ids 1..10 in batches of 5, a save every 5, a
\* fetcher that answers every request, a valid page for the odd ids and 404
\* for the even ones
MockStatus(user_id) == IF user_id % 2 = 1 THEN 200 ELSE 404

InitScenario ==
    /\ InitScraper([start_id |-> 1, end_id |-> 10, max_concurrent |-> 5,
                    batch_size |-> 5, save_every |-> 5], NoFile)
    /\ HarnessIdle

MockAnswer == \E user_id \in Ids : Respond(user_id, MockStatus(user_id))

MockBody == \E user_id \in Ids : ReadBody(user_id, ValidPage)

NextScenario == \/ Start \/ Dispatch \/ LoopExit \/ BatchComplete \/ SaveOpen \/ SaveWrite
                \/ Limiter \/ MockAnswer \/ MockBody

SpecScenario == InitScenario /\ [][NextScenario]_vars

\* the validator's test loop on every string of at most MaxLen characters
Chars == {"5", "0", "1", "-"}

scraper == <<config, semaphore, results, stats, file, now, pc, save_site,
             actual_start, batch_start, last_save_count, task, outcome, run,
             save_log, dispatched, settled, intr, produced, loaded, completed>>

\* the next test case, one character longer:
\* result = PhoneValidator.validate_phone(phone_input)
TestCase(c) ==
    /\ Len(phone_input) < MaxLen
    /\ phone_input' = Append(phone_input, c)
    /\ result' = validate_phone(phone_input')
    /\ UNCHANGED scraper

\* the test case of the empty string
InitValidator ==
    /\ \E cfg \in CrashConfigs : InitScraper(cfg, NoFile)
    /\ phone_input = <<>>
    /\ result = validate_phone(<<>>)

NextValidator == \E c \in Chars : TestCase(c)

SpecValidator == InitValidator /\ [][NextValidator]_vars

\* ------------------------------------------------------------ properties
UserIds(records) == {records[j].user_id : j \in 1..Len(records)}

NoDuplicates(records) ==
    \A j, k \in 1..Len(records) : j # k => records[j].user_id # records[k].user_id

\* the records a later load would adopt from the file
FileRecords == load_checkpoint(file, <<>>, InitStats(start_id)).results

\* C1: at every instant the number of fetches admitted by the semaphore and
\* not yet settled is at most max_concurrent, also when the batch is larger.
C1_ConcurrencyBound == Cardinality(InFlight) <= max_concurrent

\* C1 witness: a batch larger than the limit, the limit reached, a task blocked.
C1_Witness ==
    /\ batch_size > max_concurrent
    /\ Cardinality(InFlight) = max_concurrent
    /\ \E i \in DOMAIN task : task[i].st = "pending"

\* C2: a run interrupted between batch k and batch k+1 saves exactly the
\* records of batches 1..k, and the restarted run begins at the first id of
\* batch k+1.
C2_ResumeAtNextBatch ==
    /\ (pc = "done" /\ outcome = "interrupted" /\ intr.kind = "between" /\ intr.k >= 1)
          => UserIds(FileRecords) =
                UserIds(load_checkpoint(loaded.doc, <<>>, InitStats(start_id)).results)
                   \cup {i \in Ids : settled[i] = "record"}
    /\ (run > 1 /\ intr.kind = "between" /\ intr.k >= 1 /\ intr.next <= end_id
          /\ pc \notin {"idle", "crashed"})
          => actual_start = intr.next

\* C3: the accumulated records, in memory and in the checkpoint, never hold
\* two records with the same id, whatever the runs, interruptions and restarts.
C3_UniqueIds == NoDuplicates(results) /\ NoDuplicates(FileRecords)

\* C4: after an interruption at any point, the restarted run attempts every id
\* whose task had not settled when the checkpoint was saved, and no record
\* produced before the interruption is missing from the final record set.
C4_NothingSkippedOrLost ==
    (run > 1 /\ intr.kind # "none" /\ pc \notin {"idle", "crashed"})
       => /\ \A i \in intr.unsettled : i >= actual_start
          /\ (pc = "done" /\ outcome = "ok") => produced \subseteq UserIds(results)

\* the id up to which the checkpoint found at the start claims completion
LoadedCursor == load_checkpoint(loaded.doc, <<>>, InitStats(start_id)).stats.last_processed_id

\* C5: resuming from a checkpoint that holds records for the ids 1..N and the
\* cursor N, with start_id <= N+1, the run dispatches no id up to N, no id
\* twice, every id of N+1..end_id exactly once by the time it completes, and
\* the record set has no duplicate ids.
C5_ResumeExact ==
    (/\ pc \notin {"idle", "crashed"}
     /\ loaded.ret
     /\ UserIds(load_checkpoint(loaded.doc, <<>>, InitStats(start_id)).results)
           = 1..LoadedCursor
     /\ start_id <= LoadedCursor + 1)
       => /\ \A i \in Ids : dispatched[i] <= 1
          /\ \A i \in Ids : i <= LoadedCursor => dispatched[i] = 0
          /\ (pc = "done" /\ outcome = "ok")
                => \A i \in Ids : i > LoadedCursor => dispatched[i] = 1
          /\ NoDuplicates(results)
          /\ NoDuplicates(FileRecords)

\* C5 witness: a completed resumed run that dispatched two batches and added
\* a record to the loaded ones.
C5_Witness ==
    /\ pc = "done" /\ outcome = "ok" /\ loaded.ret
    /\ start_id <= LoadedCursor
    /\ end_id = LoadedCursor + 3
    /\ \A i \in Ids : dispatched[i] = (IF i > LoadedCursor THEN 1 ELSE 0)
    /\ Len(results) > LoadedCursor

\* C6: a process killed at any point of save_checkpoint leaves a checkpoint
\* file that load can parse, the previous one or the new one.
C6_AtomicSave == pc = "crashed" => (~file.exists \/ json_load_ok(file))

SavesAfter(n) == Cardinality({j \in 1..Len(save_log) : save_log[j].batches = n})

\* C8: in the end-to-end scenario exactly one save follows batch 1 and exactly
\* one save, the final one, follows batch 2; 5 records, 5 failed.
C8_Scenario ==
    pc = "done" => /\ SavesAfter(1) = 1
                   /\ SavesAfter(2) = 1
                   /\ Len(results) = 5
                   /\ stats.failed = 5

\* C8 as amended: one periodic save follows batch 1; two saves follow batch 2,
\* the periodic one (the threshold is reached again) and then the final one;
\* 5 records, 5 failed.
C8_ScenarioAmended ==
    pc = "done" => /\ save_log = <<[site |-> "auto", batches |-> 1],
                                   [site |-> "auto", batches |-> 2],
                                   [site |-> "final", batches |-> 2]>>
                   /\ UserIds(results) = {1, 3, 5, 7, 9}
                   /\ Len(results) = 5
                   /\ stats.failed = 5

\* C8 witness: the scenario has run to its end.
C8_Witness == pc = "done" /\ outcome = "ok" /\ stats.total_processed = 10

SansTimestamp(f) == [f EXCEPT !.timestamp = <<>>]

\* C9: for every checkpoint file that load accepts, saving what load adopted
\* writes a file equal to it except for the timestamp; a run that loads a
\* checkpoint and saves it without fetching anything leaves it so.
C9_RoundTrip ==
    /\ (file.exists /\ json_load_ok(file))
          => LET cp == load_checkpoint(file, <<>>, InitStats(start_id)) IN
             /\ cp.ret
             /\ SansTimestamp(json_dump(checkpoint_data(cp.results, cp.stats, now + 1)))
                   = SansTimestamp(file)
    /\ (pc = "done" /\ loaded.ret /\ \A i \in Ids : dispatched[i] = 0)
          => SansTimestamp(file) = SansTimestamp(loaded.doc)

\* C9 witness: a run loaded a checkpoint with records and saved it again at
\* another time without fetching anything.
C9_Witness ==
    /\ pc = "done" /\ loaded.ret /\ \A i \in Ids : dispatched[i] = 0
    /\ Len(results) > 0
    /\ stats.failed > 0
    /\ file.timestamp # loaded.doc.timestamp

\* the rule of the specification: strip the non-digits, keep the last 9
\* digits, reject fewer than 9, a prefix off the list, a third digit 0 or 1
ReferenceRule(raw) ==
    LET digits == SelectSeq(raw, LAMBDA c : c \in Digits)
        n == Len(digits)
    IN IF n < 9 THEN None
       ELSE LET last9 == [j \in 1..9 |-> digits[n - 9 + j]] IN
            IF <<last9[1], last9[2]>> \notin
                  {<<"1", "0">>, <<"5", "0">>, <<"5", "1">>, <<"5", "5">>,
                   <<"6", "0">>, <<"7", "0">>, <<"7", "7">>, <<"9", "9">>}
            THEN None
            ELSE IF last9[3] = "0" \/ last9[3] = "1" THEN None
            ELSE last9

\* C10: for every input validate_phone returns what the reference rule returns.
C10_MatchesReference ==
    result # <<"not run">> => result = ReferenceRule(phone_input)

\* C10 witness: an input with a digit before its last nine digits is accepted
\* and answered with those nine digits.
C10_Witness ==
    /\ result \notin {<<"not run">>, None}
    /\ Len(clean_phone(phone_input)) > 9
    /\ result # phone_input

\* C11: validate_phone is total: for every input, the empty string and the
\* strings without a digit included, it answers None or a string of exactly 9
\* digits whose first two digits are on the list and whose third digit is
\* neither 0 nor 1.
C11_Total ==
    \/ result = None
    \/ /\ Len(result) = 9
       /\ \A j \in 1..9 : result[j] \in Digits
       /\ <<result[1], result[2]>> \in
             {<<"1", "0">>, <<"5", "0">>, <<"5", "1">>, <<"5", "5">>,
              <<"6", "0">>, <<"7", "0">>, <<"7", "7">>, <<"9", "9">>}
       /\ result[3] \notin {"0", "1"}

\* C11 witness: a non-empty input without any digit is rejected.
C11_Witness ==
    /\ Len(phone_input) > 1
    /\ clean_phone(phone_input) = <<>>
    /\ result = None

\* every id of the run's range has settled and the run returned normally
RunComplete ==
    /\ pc = "done"
    /\ outcome = "ok"
    /\ \A i \in Ids : i >= actual_start => settled[i] # "pending"

\* C12: no failure of one id (a status other than 200, a timeout or network
\* error, a page without name, without phone or with an invalid phone) aborts
\* the batch or the run: once an id has settled as absent, every other id of
\* its batch still settles, every later batch is still processed and the run
\* returns normally.
C12_FailuresDoNotAbort ==
    (\E i \in Ids : settled[i] = "absent") ~> RunComplete

\* C12 witness: a run that returned normally after an id settled as absent and
\* an id of a later batch gave a record.
C12_Witness ==
    /\ RunComplete
    /\ \E i, j \in Ids : /\ settled[i] = "absent"
                         /\ j >= i + batch_size
                         /\ settled[j] = "record"
    /\ stats.failed >= 2

\* C13: when the checkpoint file exists but cannot be parsed, loading reports
\* absence and the run starts fresh (no records, the counters at zero, the
\* cursor at start_id - 1, the first batch at start_id); the run is not
\* aborted and nothing of the broken file is adopted.
C13_CorruptIsAbsent ==
    [][(pc = "idle" /\ file.exists /\ ~json_load_ok(file))
          => /\ pc' = "loop"
             /\ ~loaded'.ret
             /\ results' = <<>>
             /\ stats' = InitStats(start_id)
             /\ stats'.last_processed_id = start_id - 1
             /\ actual_start' = start_id
             /\ batch_start' = start_id
             /\ file' = file]_vars

\* C13 witness: a run that started on a broken file holding records and a
\* cursor, and went on to its end.
C13_Witness ==
    /\ loaded.doc.exists
    /\ ~json_load_ok(loaded.doc)
    /\ loaded.doc.results # <<>>
    /\ loaded.doc.results[1] # <<>>
    /\ loaded.doc.stats # <<>>
    /\ ~loaded.ret
    /\ pc = "done"
    /\ outcome = "ok"
    /\ stats.total_processed = end_id - start_id + 1

\* a save of this run has failed
WriteFailed == \E j \in 1..Len(save_log) : save_log[j].site = "failed"

\* C14: a failed checkpoint write is fatal on every path that saves (auto-save,
\* final save, save on interruption, save on error): from then on the run is
\* in its error exit or has ended, no batch is dispatched any more, and when
\* it has ended the failure was raised to the caller.
C14_WriteFailureFatal ==
    WriteFailed =>
        /\ pc \in {"save", "write", "done"}
        /\ task = NoTasks
        /\ pc \in {"save", "write"} => save_site = "error"
        /\ pc = "done" => outcome = "raised"
        /\ \A i \in Ids : i > BatchEnd => dispatched[i] = 0

\* C14 witness: the auto-save after the first batch failed, the save of the
\* error exit succeeded, and the run ended by raising with a batch left.
C14_Witness ==
    /\ pc = "done"
    /\ outcome = "raised"
    /\ Len(save_log) = 2
    /\ save_log[1] = [site |-> "failed", batches |-> 1]
    /\ save_log[2].site = "error"
    /\ \E i \in Ids : dispatched[i] = 0

C16_BatchesSequential ==
    /\ DOMAIN task \subseteq batch_start..BatchEnd
    /\ \A i \in Ids :
          (dispatched[i] > 0 /\ settled[i] = "pending") =>
              /\ i \in batch_start..BatchEnd
              /\ \A j \in Ids : j > BatchEnd => dispatched[j] = 0

\* C16 witness: a fetch of the second batch is in flight after a first batch
\* whose higher id ended before its lower id.
C16_Witness ==
    /\ pc = "gather"
    /\ max_concurrent = 2
    /\ batch_start = actual_start + batch_size
    /\ InFlight # {}
    /\ \A i \in DOMAIN task : settled[i] = "pending"
    /\ stats.last_processed_id = actual_start

\* C17: within a run the cursor last_processed_id never decreases: after every
\* step of the run it is at least what it was before the step, whatever the
\* order in which the concurrent fetches of a batch end.
C17_CursorMonotone ==
    [][(run' = run /\ pc # "idle" /\ pc' # "crashed")
          => stats'.last_processed_id >= stats.last_processed_id]_vars

\* total_processed as the run found it in the checkpoint it loaded
LoadedTotal ==
    load_checkpoint(loaded.doc, <<>>, InitStats(start_id)).stats.total_processed

\* the ids whose fetch has ended in this run
SettledIds == {i \in Ids : settled[i] # "pending"}

\* C18: every id attempted in a run adds exactly 1 to total_processed when its
\* fetch ends, whatever the outcome (a record, no record, a status other than
\* 200, a timeout, a network error); hence between two batches total_processed
\* has grown by the number of ids of the batches that have settled.
C18_CountsEveryId ==
    /\ pc = "gather" =>
          stats.total_processed - LoadedTotal
             = Cardinality(SettledIds) + Cardinality({i \in DOMAIN task : task[i].st = "text"})
    /\ pc = "loop" =>
          stats.total_processed - LoadedTotal
             = Cardinality({i \in Ids : actual_start <= i /\ i < batch_start})

\* the number of batches that had settled at the last auto-save of this run
LastAutoSaveBatches ==
    LET autos == {save_log[j].batches : j \in {n \in 1..Len(save_log) :
                                                 save_log[n].site = "auto"}}
    IN IF autos = {} THEN 0 ELSE CHOOSE k \in autos : \A other \in autos : other <= k

\* the ids attempted since the last auto-save (or since the run began), seen
\* when the gather of the current batch returns
AttemptedSinceSave ==
    {i \in Ids : /\ actual_start + LastAutoSaveBatches * batch_size <= i
                 /\ i <= BatchEnd}

\* C19: when a batch has settled, and before the next one starts, a checkpoint
\* is saved if and only if total_processed minus its value at the previous
\* auto-save (or at the start of the run) is at least save_every; in
\* particular a save follows whenever at least save_every ids have been
\* attempted since the last save.
C19_SaveWhenDue ==
    [][(pc = "gather" /\ (pc' = "loop" \/ (pc' = "save" /\ save_site' = "auto")))
          => /\ pc' = "save" <=> stats.total_processed - last_save_count >= save_every
             /\ Cardinality(AttemptedSinceSave) >= save_every => pc' = "save"]_vars

\* C20: whenever a checkpoint is written, a save caused by an interruption
\* inside a batch included, a record is in the result set if and only if the
\* fetch of its id delivered a page from which a non-empty name and a phone
\* accepted by the validator were extracted.
C20_RecordIffExtracted ==
    pc = "write" =>
        /\ UserIds(results) = produced
        /\ \A j \in 1..Len(results) :
              /\ results[j].name # ""
              /\ results[j].phone # None
              /\ validate_phone(results[j].phone) = results[j].phone

\* C21: the steps of a fetch task (fetch_user and the parse_user_data it
\* calls) leave every counter of stats and the cursor unchanged: stats change
\* only when scrape_all merges a settled batch into the result set.
C21_StatsOnlyAtMerge ==
    [][(pc = "gather" /\ pc' = "gather") => stats' = stats]_vars

\* the fetch of id i ended with a record
GaveRecord(i) == settled[i] = "record"

\* the ids of a sequence of records, in its order
RECURSIVE IdSeq(_)
IdSeq(records) ==
    IF records = <<>> THEN <<>>
    ELSE <<records[1].user_id>> \o IdSeq(Tail(records))

\* the step in which gather has returned and its records are merged
IsMerge == pc = "gather" /\ (pc' = "loop" \/ (pc' = "save" /\ save_site' = "auto"))

\* C22: the records of the result set, and so of every checkpoint, are in
\* completion order: the records a batch adds are those of its ids in the
\* order in which their fetches ended, also when a higher id ended first.
C22_CompletionOrder ==
    [][IsMerge => IdSeq(results') = IdSeq(results) \o SelectSeq(completed, GaveRecord)]_vars

\* C22 as the code has it: the records a batch adds are in ascending order of
\* id, the order of the tasks handed to gather, whatever the order in which
\* the fetches ended; the batches follow each other.
C22_TaskOrder ==
    [][IsMerge =>
          LET added == SubSeq(results', Len(results) + 1, Len(results')) IN
          /\ SubSeq(results', 1, Len(results)) = results
          /\ UserIds(added) = {i \in batch_start..BatchEnd : GaveRecord(i)}
          /\ \A j, k \in 1..Len(added) : j < k => added[j].user_id < added[k].user_id]_vars

\* C22 witness: the higher id of a batch ended first, both ids gave a record,
\* and the merged result set has the lower id first.
C22_Witness ==
    /\ pc = "write"
    /\ save_site = "auto"
    /\ Len(completed) = 2
    /\ completed[1] > completed[2]
    /\ GaveRecord(completed[1])
    /\ GaveRecord(completed[2])
    /\ Len(results) >= 2
    /\ results[Len(results) - 1].user_id = completed[2]
    /\ results[Len(results)].user_id = completed[1]

\* the ids for which this run has created a task
Dispatched == {i \in Ids : dispatched[i] > 0}

\* C23: the batches of a run partition [resume point, end_id]: they are
\* contiguous, disjoint and ascending, each of exactly batch_size ids except
\* possibly the last, and every id of the range is dispatched exactly once;
\* when the resume point is beyond end_id no id is dispatched.
C23_BatchesPartitionRange ==
    /\ \A i \in Ids : dispatched[i] <= 1
    /\ batch_start >= actual_start
    /\ (batch_start - actual_start) % batch_size = 0
    /\ LET inBatch == pc = "gather" \/ (pc \in {"save", "write"} /\ save_site = "auto")
           upTo == IF inBatch THEN batch_start + batch_size ELSE batch_start
       IN Dispatched = {i \in Ids : actual_start <= i /\ i < upTo}
    /\ task # NoTasks =>
          /\ DOMAIN task = {i \in Ids : batch_start <= i /\ i < batch_start + batch_size}
          /\ Cardinality(DOMAIN task) = batch_size \/ end_id \in DOMAIN task
    /\ (pc = "done" /\ outcome = "ok") => Dispatched = {i \in Ids : i >= actual_start}
    /\ actual_start > end_id => Dispatched = {}

\* C23 witness: a resumed run has ended after a batch of two ids and a last
\* batch of one id.
C23_Witness ==
    /\ pc = "done"
    /\ outcome = "ok"
    /\ actual_start > start_id
    /\ end_id - actual_start + 1 = batch_size + 1
    /\ Cardinality(Dispatched) = batch_size + 1

IsPrefix(a, b) == Len(a) <= Len(b) /\ SubSeq(b, 1, Len(a)) = a

\* the records the run adopted from the checkpoint it loaded
LoadedRecords == load_checkpoint(loaded.doc, <<>>, InitStats(start_id)).results

\* C24: the result set is append-only: the run begins with the records of the
\* loaded checkpoint, every later step keeps the records it has, in their
\* order and unchanged, and every checkpoint the run writes holds the result
\* set of that moment; so each checkpoint of a run has the records of every
\* earlier checkpoint of the run, and of the loaded one, as a prefix.
C24_AppendOnly ==
    [][/\ pc = "idle" => results' = LoadedRecords'
       /\ (run' = run /\ pc # "idle") =>
             /\ IsPrefix(results, results')
             /\ IsPrefix(LoadedRecords, results')
       /\ (pc = "write" /\ run' = run) => file'.results = <<results'>>]_vars

\* C24 witness: a run that loaded records has added to them and has written
\* two checkpoints, the last one holding the loaded records first.
C24_Witness ==
    /\ run = 2
    /\ pc = "done"
    /\ Len(save_log) >= 2
    /\ LoadedRecords # <<>>
    /\ Len(results) > Len(LoadedRecords)
    /\ IsPrefix(LoadedRecords, FileRecords)
    /\ FileRecords = results

\* C25: after an unexpected exception in the batch loop the checkpoint save
\* ends before the exception reaches the caller: the run ends raised only by
\* the step that completes the save of the error exit, the records and stats
\* do not change between the exception and that save, and the file then holds
\* them.
C25_SaveBeforeReraise ==
    [][/\ (save_site = "error" /\ run' = run) => (results' = results /\ stats' = stats)
       /\ (outcome' = "raised" /\ outcome # "raised") =>
             /\ pc = "write"
             /\ save_site = "error"
             /\ file' = json_dump(checkpoint_data(results, stats, now))
             /\ save_log' = Append(save_log, [site |-> "error", batches |-> BatchesSettled])]_vars

\* C25 witness: a run that had collected records ended raised, its records
\* and stats in the file.
C25_Witness ==
    /\ pc = "done"
    /\ outcome = "raised"
    /\ results # <<>>
    /\ save_log[Len(save_log)].site = "error"
    /\ file = json_dump(checkpoint_data(results, stats, now))

\* the task of id i waits at "async with self.semaphore"
Waiting(i) == i \in DOMAIN task /\ task[i].st = "pending"

\* the task of id i has passed the semaphore
Admitted(i) == i \in DOMAIN task /\ task[i].st \in {"get", "text", "done"}

\* C26: the limiter is starvation-free: every fetch, whatever its outcome,
\* gives its permit back, so the free permits are always max_concurrent less
\* the fetches in flight; and on a fair event loop where every admitted fetch
\* ends, every task that waits for a permit is admitted in the end.
C26_NoStarvation ==
    /\ [](semaphore = max_concurrent - Cardinality(InFlight))
    /\ \A i \in 1..MaxEndId : Waiting(i) ~> Admitted(i)

\* C26 witness: with one permit, the second task of a batch has been admitted
\* after the first one ended by an exception.
C26_Witness ==
    /\ max_concurrent = 1
    /\ Cardinality(DOMAIN task) = 2
    /\ \E i, j \in DOMAIN task :
          /\ i < j
          /\ task[i].st = "done"
          /\ settled[i] = "absent"
          /\ stats.total_processed = LoadedTotal
          /\ task[j].st = "get"

\* the state of the run: 0 Idle, 1 Running (load_checkpoint and the resume
\* point are part of the step that leaves Idle; the auto-save belongs to the
\* loop), 2 Draining (the save of an exit), 3 Terminated
Phase ==
    CASE pc = "idle" -> 0
      [] pc \in {"loop", "gather"} -> 1
      [] pc \in {"save", "write"} -> IF save_site = "auto" THEN 1 ELSE 2
      [] OTHER -> 3

\* C27: on a fair event loop, when every fetch ends and the saves succeed,
\* every run reaches Terminated; it goes through Idle, Running, Draining and
\* Terminated in this order, one state at a time and never back, and its
\* batches begin at ascending ids.
C27_RunTerminates ==
    /\ <>(pc = "done")
    /\ [][/\ Phase' >= Phase
          /\ Phase' <= Phase + 1
          /\ batch_start' >= batch_start]_vars

\* C27 witness: a run has ended after two batches, an auto-save and the final
\* save.
C27_Witness ==
    /\ pc = "done"
    /\ outcome = "ok"
    /\ batch_start > end_id
    /\ Len(save_log) = 2
    /\ save_log[1].site = "auto"
    /\ save_log[2].site = "final"

\* C28: in every checkpoint on disk, whatever caused its save (auto-save,
\* final save, interruption, error), the counters agree with the records:
\* valid_users equals successful and equals the number of records.
C28_CountersMatchRecords ==
    (file.exists /\ json_load_ok(file)) =>
        /\ file.stats[1].valid_users = file.stats[1].successful
        /\ file.stats[1].valid_users = Len(file.results[1])

\* the stats the run found in the checkpoint it loaded
LoadedStats == load_checkpoint(loaded.doc, <<>>, InitStats(start_id)).stats

\* C29: every fetch that ends adds exactly 1 to exactly one of successful and
\* failed, so in every state of a run successful + failed is the number of
\* ids settled in the run plus the loaded values; and no_phone + invalid_phone
\* never exceeds failed.
C29_OneCounterPerId ==
    pc \notin {"idle", "crashed"} =>
        /\ stats.successful + stats.failed
              = LoadedStats.successful + LoadedStats.failed + Cardinality(SettledIds)
        /\ stats.successful - LoadedStats.successful
              = Cardinality({i \in Ids : settled[i] = "record"})
        /\ stats.no_phone + stats.invalid_phone <= stats.failed

\* C29 witness: in one run a page with an invalid phone, a request without a
\* record for another reason and a record.
C29_Witness ==
    /\ stats.no_phone = 0
    /\ stats.invalid_phone = 1
    /\ stats.failed = 2
    /\ stats.successful = LoadedStats.successful + 1
    /\ Cardinality(SettledIds) = 3

====
